---- MODULE Spec2Model ----
(***************************************************************************)
(* Model of program_11.py: the presentation-graphics script that reads the *)
(* Wildcat Creek and Tippecanoe River discharge records and the annual and *)
(* monthly metrics tables, clips the records, and writes six PNG charts.   *)
(*                                                                         *)
(* Representation                                                          *)
(*   - a floating-point cell is either NaN (the empty tuple) or an exact   *)
(*     rational <<num, den>> with den > 0; float rounding is not modelled, *)
(*   - a raw-record date is a day index on a shortened calendar, a monthly *)
(*     metrics date is a month index counted from January of year 0, an    *)
(*     annual metrics date is a year index,                                *)
(*   - a DataFrame of raw records is the sequence of its rows in file      *)
(*     order, each row [Date, Discharge]; the columns agency_cd, site_no   *)
(*     and Quality pass through every operation untouched and are omitted, *)
(*   - a metrics DataFrame is [columns, rows]: columns are the names of    *)
(*     its numeric statistic columns, each row [Date, Station, stat];      *)
(*     the text column Station is not a statistic and takes no part in     *)
(*     DataFrame.mean().                                                   *)
(***************************************************************************)
EXTENDS Integers, Sequences, FiniteSets

VARIABLES
    pc,                 \* position of the script: the next block to run
    failedAt,           \* the block that raised, "" while none has
    files,              \* image files written so far, in order of writing
    rawWildcat,         \* content of the Wildcat Creek discharge file
    rawTippe,           \* content of the Tippecanoe River discharge file
    annualCSV,          \* content of Annual_Metrics.csv
    monthlyCSV,         \* content of Monthly_Metrics.csv
    wildcatDF, tippeDF, MV,
    annualMetrics, monthlyMetrics,
    lastDate, startDate,
    monthlyAVGwildcat, monthlyAVGtippe,
    peakWildcat, peakTippe,
    ppWildcat, ppTippe,
    figure,             \* the two series drawn on the current figure
    arg,                \* argument of a direct call of a function of the script
    ret,                \* result of ReadData / GetMonthlyAverages on arg
    clip                \* result of ClipData on the table in ret

vars == <<pc, failedAt, files, rawWildcat, rawTippe, annualCSV, monthlyCSV,
          wildcatDF, tippeDF, MV, annualMetrics, monthlyMetrics,
          lastDate, startDate, monthlyAVGwildcat, monthlyAVGtippe,
          peakWildcat, peakTippe, ppWildcat, ppTippe, figure, arg, ret, clip>>

mainVars == <<failedAt, files, rawWildcat, rawTippe, annualCSV, monthlyCSV,
              wildcatDF, tippeDF, MV, annualMetrics, monthlyMetrics,
              lastDate, startDate, monthlyAVGwildcat, monthlyAVGtippe,
              peakWildcat, peakTippe, ppWildcat, ppTippe, figure>>

(***************************************************************************)
(* Bounds of the model.                                                    *)
(***************************************************************************)
MaxRows == 2        \* rows of a raw discharge file
MaxDate == 3        \* largest day index in a raw discharge file
MaxMoRows == 3      \* rows of a monthly table given to GetMonthlyAverages
MaxPeaks == 3       \* rows of an annual table in the ranking runs
MainRows == 2       \* rows of a metrics table in the whole-script runs

(***************************************************************************)
(* Floating-point cells.                                                   *)
(***************************************************************************)
NaN == <<>>

Num(n) == <<n, 1>>

isna(x) == x = NaN

FracEq(a, b) == a[1] * b[2] = b[1] * a[2]

FracLt(a, b) == a[1] * b[2] < b[1] * a[2]

FracAdd(a, b) == <<a[1] * b[2] + b[1] * a[2], a[2] * b[2]>>

\* float division x / n of a cell by a positive count
FracDiv(a, n) == <<a[1], a[2] * n>>

\* the comparison float < 0 of pandas: False on NaN
LtZero(x) == ~isna(x) /\ x[1] < 0

(***************************************************************************)
(* ReadData (lines 19-46).                                                 *)
(* A raw file is [ok, rows]: ok is FALSE when read_csv raises (missing     *)
(* file, wrong column count, unparseable date); rows are the data lines    *)
(* left after the comment lines and the two header lines are skipped, each *)
(* [Date, tok] with tok the text of the Discharge field.                   *)
(***************************************************************************)
\* read_csv's conversion of the Discharge field: a numeric token is its
\* value; the sentinel 'Eqp' (na_values) and an empty field are NaN
ParseDischarge(tok) == IF tok.kind = "num" THEN Num(tok.v) ELSE NaN

read_csv(file) ==
    [i \in 1..Len(file.rows) |->
        [Date |-> file.rows[i].Date,
         Discharge |-> ParseDischarge(file.rows[i].tok)]]

RemoveNegative_Zero(DataDF) ==
    [i \in DOMAIN DataDF |->
        IF LtZero(DataDF[i].Discharge)
        THEN [DataDF[i] EXCEPT !.Discharge = Num(0)]
        ELSE DataDF[i]]

\* DataDF['Discharge'].loc[(DataDF['Discharge'] < 0)] = np.NaN
RemoveNegative(DataDF) ==
    [i \in DOMAIN DataDF |->
        IF LtZero(DataDF[i].Discharge)
        THEN [DataDF[i] EXCEPT !.Discharge = NaN]
        ELSE DataDF[i]]

\* DataDF["Discharge"].isna().sum()
CountMissing(DataDF) ==
    Cardinality({i \in DOMAIN DataDF : isna(DataDF[i].Discharge)})

ReadData(file) ==
    LET DataDF == RemoveNegative(read_csv(file))
    IN  [DataDF |-> DataDF, MissingValues |-> CountMissing(DataDF)]

(***************************************************************************)
(* ClipData (lines 48-59).  DataDF[startDate:endDate] on a date index in   *)
(* increasing order is the positional slice between the left insertion     *)
(* point of startDate and the right insertion point of endDate.            *)
(***************************************************************************)
SearchSortedLeft_Exclusive(DataDF, key) ==
    Cardinality({i \in DOMAIN DataDF : DataDF[i].Date <= key})

SearchSortedLeft(DataDF, key) ==
    Cardinality({i \in DOMAIN DataDF : DataDF[i].Date < key})

SearchSortedRight_Exclusive(DataDF, key) ==
    Cardinality({i \in DOMAIN DataDF : DataDF[i].Date < key})

SearchSortedRight(DataDF, key) ==
    Cardinality({i \in DOMAIN DataDF : DataDF[i].Date <= key})

LabelSlice(DataDF, fromDate, toDate) ==
    SubSeq(DataDF, SearchSortedLeft(DataDF, fromDate) + 1,
                   SearchSortedRight(DataDF, toDate))

\* fromDate, toDate: the parameters startDate, endDate of the source
ClipData(DataDF, fromDate, toDate) ==
    LET Clipped == LabelSlice(DataDF, fromDate, toDate)
    IN  [DataDF |-> Clipped, MissingValues |-> CountMissing(Clipped)]

(***************************************************************************)
(* Inputs of the ReadData / ClipData runs.                                 *)
(***************************************************************************)
SeqsUpTo(S, n) == UNION {[1..k -> S] : k \in 0..n}

IsSortedByDate(rows) ==
    \A i \in 1..(Len(rows) - 1) : rows[i].Date <= rows[i + 1].Date

DischargeNums == {-5, 0, 7}

Tokens ==
    {[kind |-> "num", v |-> x] : x \in DischargeNums}
        \cup {[kind |-> "Eqp", v |-> 0], [kind |-> "empty", v |-> 0]}

RawRows == [Date : 1..MaxDate, tok : Tokens]

\* files as the USGS publishes them: one line per day, in date order
RawFiles ==
    {[ok |-> TRUE, rows |-> r] :
        r \in {q \in SeqsUpTo(RawRows, MaxRows) : IsSortedByDate(q)}}

ClipDates == 0..(MaxDate + 1)

None == <<>>

\* a metrics table not read yet
NoFrame == [columns |-> <<>>, rows |-> <<>>]

MainIdle ==
    /\ failedAt = ""
    /\ files = <<>>
    /\ rawWildcat = None /\ rawTippe = None
    /\ annualCSV = None /\ monthlyCSV = None
    /\ wildcatDF = None /\ tippeDF = None /\ MV = 0
    /\ annualMetrics = NoFrame /\ monthlyMetrics = NoFrame
    /\ lastDate = 0 /\ startDate = 0
    /\ monthlyAVGwildcat = None /\ monthlyAVGtippe = None
    /\ peakWildcat = None /\ peakTippe = None
    /\ ppWildcat = None /\ ppTippe = None
    /\ figure = None

InitClip ==
    /\ MainIdle
    /\ pc = "CallReadData"
    /\ arg \in [file : RawFiles, startDate : ClipDates, endDate : ClipDates]
    /\ ret = None
    /\ clip = None

CallReadData ==
    /\ pc = "CallReadData"
    /\ ret' = ReadData(arg.file)
    /\ pc' = "CallClipData"
    /\ UNCHANGED <<mainVars, arg, clip>>

CallClipData ==
    /\ pc = "CallClipData"
    /\ clip' = ClipData(ret.DataDF, arg.startDate, arg.endDate)
    /\ pc' = "ClipReturned"
    /\ UNCHANGED <<mainVars, arg, ret>>

\* ClipData with the table's own first and last date
CallClipOwnRange ==
    /\ pc = "CallClipData"
    /\ Len(ret.DataDF) > 0
    /\ clip' = ClipData(ret.DataDF, ret.DataDF[1].Date,
                        ret.DataDF[Len(ret.DataDF)].Date)
    /\ pc' = "ClipOwnReturned"
    /\ UNCHANGED <<mainVars, arg, ret>>

NextClip == CallReadData \/ CallClipData \/ CallClipOwnRange

SpecClip == InitClip /\ [][NextClip]_vars

InWindow(row, s, e) == s <= row.Date /\ row.Date <= e

RowsInWindow(DataDF, s, e) ==
    SelectSeq(DataDF, LAMBDA row : InWindow(row, s, e))

\* C5: ClipData returns exactly the input rows whose date d satisfies
\* start <= d <= end (both end points inclusive, input order kept), its
\* count is the number of returned rows with a missing discharge, and when
\* start > end or no row is in the window the result is empty with count 0.
C5_ClipContainment ==
    pc = "ClipReturned" =>
        LET s == arg.startDate
            e == arg.endDate
            In == ret.DataDF
            Out == clip.DataDF
        IN  /\ \A i \in DOMAIN Out :
                /\ InWindow(Out[i], s, e)
                /\ \E j \in DOMAIN In : In[j] = Out[i]
            /\ Out = RowsInWindow(In, s, e)
            /\ clip.MissingValues =
                 Cardinality({i \in DOMAIN Out : Out[i].Discharge = NaN})
            /\ (s > e \/ ~\E j \in DOMAIN In : InWindow(In[j], s, e))
                 => (Out = <<>> /\ clip.MissingValues = 0)

C5_Witness ==
    /\ pc = "ClipReturned"
    /\ Len(ret.DataDF) = 2
    /\ Len(clip.DataDF) = 1
    /\ clip.DataDF[1].Date = arg.endDate
    /\ clip.MissingValues = 1

\* C6: ReadData followed by ClipData with the table's own first and last
\* date returns the same rows in the same order and the same missing count.
C6_RoundTrip ==
    pc = "ClipOwnReturned" =>
        /\ clip.DataDF = ret.DataDF
        /\ clip.MissingValues = ret.MissingValues

C6_Witness ==
    /\ pc = "ClipOwnReturned"
    /\ Len(ret.DataDF) = 2
    /\ ret.DataDF[1].Date < ret.DataDF[2].Date
    /\ ret.MissingValues = 1
    /\ clip.MissingValues = 1

\* C7: every row of the file appears in ReadData's table with its date; a
\* negative discharge becomes missing (not the value, not 0, row kept), a
\* discharge >= 0 keeps its value, and the count is the number of rows
\* missing in the file (empty or sentinel) plus the number of negative rows.
C7_NegativeIsMissing ==
    pc \in {"CallClipData", "ClipReturned", "ClipOwnReturned"} =>
        LET rows == arg.file.rows
            DF == ret.DataDF
            Neg == {i \in DOMAIN rows :
                       rows[i].tok.kind = "num" /\ rows[i].tok.v < 0}
            Mis == {i \in DOMAIN rows : rows[i].tok.kind # "num"}
        IN  /\ Len(DF) = Len(rows)
            /\ \A i \in DOMAIN rows :
                /\ DF[i].Date = rows[i].Date
                /\ i \in Neg => DF[i].Discharge = NaN
                /\ (rows[i].tok.kind = "num" /\ rows[i].tok.v >= 0)
                     => DF[i].Discharge = <<rows[i].tok.v, 1>>
            /\ ret.MissingValues = Cardinality(Mis) + Cardinality(Neg)

C7_Witness ==
    /\ pc = "CallClipData"
    /\ Len(arg.file.rows) = 2
    /\ arg.file.rows[1].tok = [kind |-> "num", v |-> -5]
    /\ arg.file.rows[2].tok.kind = "Eqp"
    /\ ret.DataDF[1].Discharge = NaN
    /\ ret.MissingValues = 2

(***************************************************************************)
(* GetMonthlyAverages (lines 72-91).                                       *)
(***************************************************************************)
NumMonths == 12

Range(f) == {f[i] : i \in DOMAIN f}

\* DatetimeIndex.month of a month index: 1 for January .. 12 for December
MonthOf(date) == (date % 12) + 1

\* MoDataDF.loc[dates.month == month]
MonthRows(MoDataDF, month) ==
    SelectSeq(MoDataDF.rows, LAMBDA row : MonthOf(row.Date) = month)

RECURSIVE NanSum(_)
\* sum of the non-missing cells of a column, 0 when there is none
NanSum(cells) ==
    IF cells = <<>> THEN Num(0)
    ELSE IF isna(Head(cells)) THEN NanSum(Tail(cells))
    ELSE FracAdd(Head(cells), NanSum(Tail(cells)))

NanCount(cells) == Cardinality({i \in DOMAIN cells : ~isna(cells[i])})

NanMean_CountAll(cells) ==
    IF Len(cells) = 0 THEN NaN ELSE FracDiv(NanSum(cells), Len(cells))

\* Series.mean() with skipna=True: NaN for a column without a valid cell
NanMean(cells) ==
    IF NanCount(cells) = 0 THEN NaN
    ELSE FracDiv(NanSum(cells), NanCount(cells))

Column(rows, name) == [i \in DOMAIN rows |-> rows[i].stat[name]]

\* DataFrame.mean(): a Series indexed by the statistic columns
FrameMean(columns, rows) ==
    [name \in Range(columns) |-> NanMean(Column(rows, name))]

MonthLabels_ZeroBased == <<0, 1, 2, 3, 4, 5, 6, 7, 8, 9, 10, 11>>

\* the keys of the dict literal of lines 84-89, in insertion order
MonthLabels == <<1, 2, 3, 4, 5, 6, 7, 8, 9, 10, 11, 12>>

GetMonthlyAverages(MoDataDF) ==
    LET \* for i in range(12): MonthAVG.append(... dates.month == (i+1) ...)
        MonthAVG == [i \in 0..(NumMonths - 1) |->
                        FrameMean(MoDataDF.columns, MonthRows(MoDataDF, i + 1))]
        labels == MonthLabels
    IN  [columns |-> labels,
         index   |-> MoDataDF.columns,
         data    |-> [k \in 1..Len(labels) |-> MonthAVG[k - 1]]]

(***************************************************************************)
(* Inputs of the GetMonthlyAverages runs: the monthly rows of one station, *)
(* in any order, over two years.                                           *)
(***************************************************************************)
MonthlyColumns == <<"Mean Flow", "Coeff Var">>

\* January of year 0, January and December of year 1
MoDates == {0, 12, 23}

MoStats ==
    {[c \in Range(MonthlyColumns) |->
         IF c = "Mean Flow" THEN p[1] ELSE p[2]] :
       p \in {NaN, Num(10), Num(20)} \X {NaN, Num(3)}}

MoRows == [Date : MoDates, Station : {"Wildcat"}, stat : MoStats]

MoTables ==
    {[columns |-> MonthlyColumns, rows |-> r] : r \in SeqsUpTo(MoRows, MaxMoRows)}

InitAvg ==
    /\ MainIdle
    /\ pc = "CallGetMonthlyAverages"
    /\ arg \in MoTables
    /\ ret = None
    /\ clip = None

CallGetMonthlyAverages ==
    /\ pc = "CallGetMonthlyAverages"
    /\ ret' = GetMonthlyAverages(arg)
    /\ pc' = "AveragesReturned"
    /\ UNCHANGED <<mainVars, arg, clip>>

NextAvg == CallGetMonthlyAverages

SpecAvg == InitAvg /\ [][NextAvg]_vars

RECURSIVE SumOver(_, _)
SumOver(S, f) ==
    IF S = {} THEN 0
    ELSE LET x == CHOOSE y \in S : TRUE
         IN  f[x] + SumOver(S \ {x}, f)

\* rows of the input whose date is in calendar month m (of any year) and
\* whose cell of statistic c is not missing
ValidRows(tbl, c, m) ==
    {i \in DOMAIN tbl.rows :
        /\ \E year \in 0..Len(tbl.rows) + 1 :
              tbl.rows[i].Date = 12 * year + (m - 1)
        /\ tbl.rows[i].stat[c] # NaN}

\* C3: for every statistic and month m in 1..12 the output cell is the
\* arithmetic mean of exactly the non-missing values of that statistic over
\* the rows dated in month m of any year, and is missing when there is no
\* such value (also when the month has no row at all).
C3_CellIsMeanOfValid ==
    pc = "AveragesReturned" =>
        \A c \in Range(arg.columns) : \A m \in 1..12 :
            LET V == ValidRows(arg, c, m)
                cell == ret.data[m][c]
                value == [i \in V |-> arg.rows[i].stat[c][1]]
            IN  IF V = {}
                THEN cell = NaN
                ELSE /\ cell # NaN
                     /\ cell[2] > 0
                     /\ cell[1] * Cardinality(V) = SumOver(V, value) * cell[2]

C3_Witness ==
    /\ pc = "AveragesReturned"
    /\ Len(arg.rows) = 3
    /\ arg.rows[1].Date = 12 /\ arg.rows[1].stat["Mean Flow"] = Num(20)
    /\ arg.rows[2].Date = 23 /\ arg.rows[2].stat["Mean Flow"] = NaN
    /\ arg.rows[3].Date = 0 /\ arg.rows[3].stat["Mean Flow"] = Num(10)
    /\ arg.rows[1].stat["Coeff Var"] = NaN
    /\ arg.rows[3].stat["Coeff Var"] = NaN
    /\ FracEq(ret.data[1]["Mean Flow"], Num(15))
    /\ ret.data[1]["Coeff Var"] = NaN
    /\ ret.data[12]["Mean Flow"] = NaN
    /\ ret.data[3]["Mean Flow"] = NaN

\* C4: whatever the row order and the months present, the output has
\* exactly 12 columns labelled 1, 2, ..., 12 in that order and exactly one
\* row per statistic column of the input.
C4_Shape ==
    pc = "AveragesReturned" =>
        /\ Len(ret.columns) = 12
        /\ \A k \in 1..12 : ret.columns[k] = k
        /\ DOMAIN ret.data = 1..12
        /\ ret.index = arg.columns
        /\ \A k \in 1..12 : DOMAIN ret.data[k] = Range(arg.columns)

C4_Witness ==
    /\ pc = "AveragesReturned"
    /\ Len(arg.rows) = 2
    /\ arg.rows[1].Date = 23
    /\ arg.rows[2].Date = 0
    /\ Len(ret.columns) = 12
    /\ Len(ret.index) = 2

(***************************************************************************)
(* The script (lines 97-212).                                              *)
(***************************************************************************)
Stations == {"Wildcat", "Tippe"}

\* ReadMetrics (lines 61-70): the CSV's rows, Date parsed and made the index
ReadMetrics(file) == [columns |-> file.columns, rows |-> file.rows]

SelectStation_All(DataDF, station) == DataDF

\* DataDF.loc[DataDF['Station'] == station]: a boolean row filter
SelectStation(DataDF, station) ==
    [columns |-> DataDF.columns,
     rows |-> SelectSeq(DataDF.rows, LAMBDA row : row.Station = station)]

\* DataDF[name].loc[DataDF['Station'] == station]: a Series, Date -> val
StationSeries(DataDF, name, station) ==
    LET rows == SelectStation(DataDF, station).rows
    IN  [i \in DOMAIN rows |->
            [Date |-> rows[i].Date, val |-> rows[i].stat[name]]]

\* DataFrame.transpose()
Transpose(frame) ==
    [columns |-> frame.index,
     index   |-> frame.columns,
     data    |-> [name \in Range(frame.index) |->
                     [k \in DOMAIN frame.data |-> frame.data[k][name]]]]

GeqCell(a, b) == ~FracLt(a, b)

RECURSIVE InsertAsc(_, _)
InsertAsc(sorted, x) ==
    IF sorted = <<>> THEN <<x>>
    ELSE IF ~FracLt(x.val, Head(sorted).val)
         THEN <<Head(sorted)>> \o InsertAsc(Tail(sorted), x)
         ELSE <<x>> \o sorted

RECURSIVE InsertDesc(_, _)
\* x goes behind every element that is not smaller (equal values keep
\* their input order)
InsertDesc(sorted, x) ==
    IF sorted = <<>> THEN <<x>>
    ELSE IF GeqCell(Head(sorted).val, x.val)
         THEN <<Head(sorted)>> \o InsertDesc(Tail(sorted), x)
         ELSE <<x>> \o sorted

RECURSIVE SortValid_Ascending(_)
SortValid_Ascending(series) ==
    IF series = <<>> THEN <<>>
    ELSE InsertAsc(SortValid_Ascending(SubSeq(series, 1, Len(series) - 1)),
                   series[Len(series)])

RECURSIVE SortValid(_)
\* descending order of the non-missing elements
SortValid(series) ==
    IF series = <<>> THEN <<>>
    ELSE InsertDesc(SortValid(SubSeq(series, 1, Len(series) - 1)),
                    series[Len(series)])

\* Series.sort_values(ascending=False), na_position='last'
sort_values(series) ==
    SortValid(SelectSeq(series, LAMBDA e : ~isna(e.val)))
        \o SelectSeq(series, LAMBDA e : isna(e.val))

PlottingPositions_ZeroBased(series) ==
    [k \in 1..Len(series) |-> <<k - 1, Len(series)>>]

\* for i in range(len(series)): pp.append((i+1)/len(series)), i = k - 1
PlottingPositions(series) ==
    [k \in 1..Len(series) |-> <<(k - 1) + 1, Len(series)>>]

\* the points of plt.plot(x, y): x and y taken position by position
Points(x, y) == [k \in 1..Len(x) |-> <<x[k], y[k].val>>]

\* day indices of '1969-10-01' and '2019-09-30' on the shortened calendar
ClipStart == 2

ClipEnd == 3

\* pd.DateOffset(months=(5*12)) on the shortened calendar
FiveYears == 1

\* DataDF['Discharge']: the Series Date -> val of a raw-record table
DischargeSeries(DataDF) ==
    [i \in DOMAIN DataDF |->
        [Date |-> DataDF[i].Date, val |-> DataDF[i].Discharge]]

\* series[fromDate:toDate] on a Series in date order
SeriesSlice(series, fromDate, toDate) ==
    SelectSeq(series, LAMBDA e : fromDate <= e.Date /\ e.Date <= toDate)

ProgramOrder ==
    <<"ReadWildcat", "ReadTippe", "ReadAnnual", "ReadMonthly",
      "ClipWildcat", "ClipTippe", "LastFiveYears",
      "Chart1", "Chart2", "Chart3", "Chart4",
      "MonthlyAvg", "Chart5",
      "SelectPeaks", "SortPeaks", "PlottingPositions", "Chart6">>

ChartFirstOrder ==
    <<"ReadWildcat", "Chart1", "ReadTippe", "ReadAnnual", "ReadMonthly",
      "ClipWildcat", "ClipTippe", "LastFiveYears",
      "Chart2", "Chart3", "Chart4",
      "MonthlyAvg", "Chart5",
      "SelectPeaks", "SortPeaks", "PlottingPositions", "Chart6">>

Position(order, block) == CHOOSE i \in DOMAIN order : order[i] = block

After(order, block) ==
    IF Position(order, block) = Len(order) THEN "done"
    ELSE order[Position(order, block) + 1]

NextPc_ChartFirst(block) == After(ChartFirstOrder, block)

\* the block that follows `block` in the text of the script
NextPc(block) == After(ProgramOrder, block)

Savefig_Skip(written, name) == written

\* plt.savefig(name, dpi=96)
Savefig(written, name) == Append(written, name)

Raise ==
    /\ pc' = "failed"
    /\ failedAt' = pc

Goto ==
    /\ pc' = NextPc(pc)
    /\ UNCHANGED failedAt

\* line 103
ReadWildcat ==
    /\ pc = "ReadWildcat"
    /\ \/ /\ rawWildcat.ok
          /\ wildcatDF' = ReadData(rawWildcat).DataDF
          /\ MV' = ReadData(rawWildcat).MissingValues
          /\ Goto
       \/ /\ ~rawWildcat.ok
          /\ Raise
          /\ UNCHANGED <<wildcatDF, MV>>
    /\ UNCHANGED <<files, rawWildcat, rawTippe, annualCSV, monthlyCSV,
                   tippeDF, annualMetrics, monthlyMetrics, lastDate,
                   startDate, monthlyAVGwildcat, monthlyAVGtippe,
                   peakWildcat, peakTippe, ppWildcat, ppTippe, figure,
                   arg, ret, clip>>

\* line 104
ReadTippe ==
    /\ pc = "ReadTippe"
    /\ \/ /\ rawTippe.ok
          /\ tippeDF' = ReadData(rawTippe).DataDF
          /\ MV' = ReadData(rawTippe).MissingValues
          /\ Goto
       \/ /\ ~rawTippe.ok
          /\ Raise
          /\ UNCHANGED <<tippeDF, MV>>
    /\ UNCHANGED <<files, rawWildcat, rawTippe, annualCSV, monthlyCSV,
                   wildcatDF, annualMetrics, monthlyMetrics, lastDate,
                   startDate, monthlyAVGwildcat, monthlyAVGtippe,
                   peakWildcat, peakTippe, ppWildcat, ppTippe, figure,
                   arg, ret, clip>>

\* line 107
ReadAnnual ==
    /\ pc = "ReadAnnual"
    /\ \/ /\ annualCSV.ok
          /\ annualMetrics' = ReadMetrics(annualCSV)
          /\ Goto
       \/ /\ ~annualCSV.ok
          /\ Raise
          /\ UNCHANGED annualMetrics
    /\ UNCHANGED <<files, rawWildcat, rawTippe, annualCSV, monthlyCSV,
                   wildcatDF, tippeDF, MV, monthlyMetrics, lastDate,
                   startDate, monthlyAVGwildcat, monthlyAVGtippe,
                   peakWildcat, peakTippe, ppWildcat, ppTippe, figure,
                   arg, ret, clip>>

\* line 108
ReadMonthly ==
    /\ pc = "ReadMonthly"
    /\ \/ /\ monthlyCSV.ok
          /\ monthlyMetrics' = ReadMetrics(monthlyCSV)
          /\ Goto
       \/ /\ ~monthlyCSV.ok
          /\ Raise
          /\ UNCHANGED monthlyMetrics
    /\ UNCHANGED <<files, rawWildcat, rawTippe, annualCSV, monthlyCSV,
                   wildcatDF, tippeDF, MV, annualMetrics, lastDate,
                   startDate, monthlyAVGwildcat, monthlyAVGtippe,
                   peakWildcat, peakTippe, ppWildcat, ppTippe, figure,
                   arg, ret, clip>>

\* lines 111, 113
ClipWildcat ==
    /\ pc = "ClipWildcat"
    /\ wildcatDF' =
         DischargeSeries(ClipData(wildcatDF, ClipStart, ClipEnd).DataDF)
    /\ MV' = ClipData(wildcatDF, ClipStart, ClipEnd).MissingValues
    /\ Goto
    /\ UNCHANGED <<files, rawWildcat, rawTippe, annualCSV, monthlyCSV,
                   tippeDF, annualMetrics, monthlyMetrics, lastDate,
                   startDate, monthlyAVGwildcat, monthlyAVGtippe,
                   peakWildcat, peakTippe, ppWildcat, ppTippe, figure,
                   arg, ret, clip>>

\* lines 112, 114
ClipTippe ==
    /\ pc = "ClipTippe"
    /\ tippeDF' =
         DischargeSeries(ClipData(tippeDF, ClipStart, ClipEnd).DataDF)
    /\ MV' = ClipData(tippeDF, ClipStart, ClipEnd).MissingValues
    /\ Goto
    /\ UNCHANGED <<files, rawWildcat, rawTippe, annualCSV, monthlyCSV,
                   wildcatDF, annualMetrics, monthlyMetrics, lastDate,
                   startDate, monthlyAVGwildcat, monthlyAVGtippe,
                   peakWildcat, peakTippe, ppWildcat, ppTippe, figure,
                   arg, ret, clip>>

\* lines 116-117: wildcatDF.index[-1] raises IndexError on an empty series
LastFiveYears ==
    /\ pc = "LastFiveYears"
    /\ \/ /\ Len(wildcatDF) > 0
          /\ lastDate' = wildcatDF[Len(wildcatDF)].Date
          /\ startDate' = wildcatDF[Len(wildcatDF)].Date - FiveYears
          /\ Goto
       \/ /\ Len(wildcatDF) = 0
          /\ Raise
          /\ UNCHANGED <<lastDate, startDate>>
    /\ UNCHANGED <<files, rawWildcat, rawTippe, annualCSV, monthlyCSV,
                   wildcatDF, tippeDF, MV, annualMetrics, monthlyMetrics,
                   monthlyAVGwildcat, monthlyAVGtippe,
                   peakWildcat, peakTippe, ppWildcat, ppTippe, figure,
                   arg, ret, clip>>

chartUnchanged ==
    <<rawWildcat, rawTippe, annualCSV, monthlyCSV, wildcatDF, tippeDF, MV,
      annualMetrics, monthlyMetrics, lastDate, startDate,
      monthlyAVGwildcat, monthlyAVGtippe, peakWildcat, peakTippe,
      ppWildcat, ppTippe, arg, ret, clip>>

\* A chart block: plt.figure, the two series drawn, the decorations and
\* plt.savefig as its last statement.
DrawAndSave(red, blue, name) ==
    /\ figure' = <<red, blue>>
    /\ files' = Savefig(files, name)
    /\ Goto
    /\ UNCHANGED chartUnchanged

\* lines 123-132
Chart1 ==
    /\ pc = "Chart1"
    /\ DrawAndSave(SeriesSlice(wildcatDF, startDate, lastDate),
                   SeriesSlice(tippeDF, startDate, lastDate),
                   "DailyDischarge5Year.png")

\* lines 135-144
Chart2 ==
    /\ pc = "Chart2"
    /\ DrawAndSave(StationSeries(annualMetrics, "Coeff Var", "Wildcat"),
                   StationSeries(annualMetrics, "Coeff Var", "Tippe"),
                   "AnnualCoeffVar.png")

\* lines 147-156
Chart3 ==
    /\ pc = "Chart3"
    /\ DrawAndSave(StationSeries(annualMetrics, "Tqmean", "Wildcat"),
                   StationSeries(annualMetrics, "Tqmean", "Tippe"),
                   "AnnualTQmean.png")

\* lines 159-168
Chart4 ==
    /\ pc = "Chart4"
    /\ DrawAndSave(StationSeries(annualMetrics, "R-B Index", "Wildcat"),
                   StationSeries(annualMetrics, "R-B Index", "Tippe"),
                   "AnnualRBindex.png")

\* lines 171-172
MonthlyAvg ==
    /\ pc = "MonthlyAvg"
    /\ monthlyAVGwildcat' =
         Transpose(GetMonthlyAverages(SelectStation(monthlyMetrics, "Wildcat")))
    /\ monthlyAVGtippe' =
         Transpose(GetMonthlyAverages(SelectStation(monthlyMetrics, "Tippe")))
    /\ Goto
    /\ UNCHANGED <<files, rawWildcat, rawTippe, annualCSV, monthlyCSV,
                   wildcatDF, tippeDF, MV, annualMetrics, monthlyMetrics,
                   lastDate, startDate, peakWildcat, peakTippe,
                   ppWildcat, ppTippe, figure, arg, ret, clip>>

\* a column of a transposed averages table: a Series month label -> val
MonthSeries(frame, name) ==
    [k \in DOMAIN frame.data[name] |->
        [Date |-> frame.index[k], val |-> frame.data[name][k]]]

\* lines 174-183
Chart5 ==
    /\ pc = "Chart5"
    /\ DrawAndSave(MonthSeries(monthlyAVGwildcat, "Mean Flow"),
                   MonthSeries(monthlyAVGtippe, "Mean Flow"),
                   "MonthlyMeanFlow.png")

rankUnchanged ==
    <<files, rawWildcat, rawTippe, annualCSV, monthlyCSV, wildcatDF,
      tippeDF, MV, annualMetrics, monthlyMetrics, lastDate, startDate,
      monthlyAVGwildcat, monthlyAVGtippe, figure, arg, ret, clip>>

\* lines 186-187
SelectPeaks ==
    /\ pc = "SelectPeaks"
    /\ peakWildcat' = StationSeries(annualMetrics, "Peak Flow", "Wildcat")
    /\ peakTippe' = StationSeries(annualMetrics, "Peak Flow", "Tippe")
    /\ Goto
    /\ UNCHANGED <<rankUnchanged, ppWildcat, ppTippe>>

\* lines 189-190
SortPeaks ==
    /\ pc = "SortPeaks"
    /\ peakWildcat' = sort_values(peakWildcat)
    /\ peakTippe' = sort_values(peakTippe)
    /\ Goto
    /\ UNCHANGED <<rankUnchanged, ppWildcat, ppTippe>>

\* lines 193-198
ComputePlottingPositions ==
    /\ pc = "PlottingPositions"
    /\ ppWildcat' = PlottingPositions(peakWildcat)
    /\ ppTippe' = PlottingPositions(peakTippe)
    /\ Goto
    /\ UNCHANGED <<rankUnchanged, peakWildcat, peakTippe>>

\* lines 201-212
Chart6 ==
    /\ pc = "Chart6"
    /\ DrawAndSave(Points(ppWildcat, peakWildcat),
                   Points(ppTippe, peakTippe),
                   "ExceedanceProbability.png")

Charts == {"Chart1", "Chart2", "Chart3", "Chart4", "Chart5", "Chart6"}

\* Drawing or saving a chart raises (the plotting library rejects the data,
\* the file cannot be written): nothing of the chart is written and the
\* script ends.
ChartRaises ==
    /\ pc \in Charts
    /\ Raise
    /\ UNCHANGED <<files, figure, chartUnchanged>>

(***************************************************************************)
(* Inputs of the whole-script runs.                                        *)
(***************************************************************************)
Unreadable == [ok |-> FALSE, columns |-> <<>>, rows |-> <<>>]

MainRawFiles ==
    {[ok |-> FALSE, rows |-> <<>>]}
        \cup {f \in RawFiles :
                /\ Len(f.rows) <= 1
                /\ \A i \in DOMAIN f.rows :
                      f.rows[i].tok = [kind |-> "num", v |-> 7]}

AnnualColumns == <<"Coeff Var", "Tqmean", "R-B Index", "Peak Flow">>

AnnualStat(peak) ==
    [c \in Range(AnnualColumns) |-> IF c = "Peak Flow" THEN peak ELSE Num(1)]

\* an annual table: row i is year i of the station and peak flow q[i]
AnnualTable(q) ==
    [ok |-> TRUE, columns |-> AnnualColumns,
     rows |-> [i \in 1..Len(q) |->
                  [Date |-> i, Station |-> q[i][1], stat |-> AnnualStat(q[i][2])]]]

\* a monthly table: row i is month index i - 1 of the station q[i]
MonthlyTable(q) ==
    [ok |-> TRUE, columns |-> MonthlyColumns,
     rows |-> [i \in 1..Len(q) |->
                  [Date |-> i - 1, Station |-> q[i],
                   stat |-> [c \in Range(MonthlyColumns) |-> Num(10 * i)]]]]

MainAnnualFiles ==
    {Unreadable}
        \cup {AnnualTable(q) : q \in SeqsUpTo(Stations \X {Num(50)}, MainRows)}

MainMonthlyFiles ==
    {Unreadable} \cup {MonthlyTable(q) : q \in SeqsUpTo(Stations, MainRows)}

Init ==
    /\ pc = "ReadWildcat"
    /\ failedAt = ""
    /\ files = <<>>
    /\ rawWildcat \in MainRawFiles
    /\ rawTippe \in MainRawFiles
    /\ annualCSV \in MainAnnualFiles
    /\ monthlyCSV \in MainMonthlyFiles
    /\ wildcatDF = None /\ tippeDF = None /\ MV = 0
    /\ annualMetrics = NoFrame /\ monthlyMetrics = NoFrame
    /\ lastDate = 0 /\ startDate = 0
    /\ monthlyAVGwildcat = None /\ monthlyAVGtippe = None
    /\ peakWildcat = None /\ peakTippe = None
    /\ ppWildcat = None /\ ppTippe = None
    /\ figure = None
    /\ arg = None /\ ret = None /\ clip = None

Next ==
    \/ ReadWildcat \/ ReadTippe \/ ReadAnnual \/ ReadMonthly
    \/ ClipWildcat \/ ClipTippe \/ LastFiveYears
    \/ Chart1 \/ Chart2 \/ Chart3 \/ Chart4
    \/ MonthlyAvg \/ Chart5
    \/ SelectPeaks \/ SortPeaks \/ ComputePlottingPositions \/ Chart6
    \/ ChartRaises

Spec == Init /\ [][Next]_vars

(***************************************************************************)
(* The exceedance ranking of lines 186-212 on annual tables with missing   *)
(* and equal peak flows.                                                   *)
(***************************************************************************)
PeakVals == {NaN, Num(50), Num(75), Num(100)}

RankTables ==
    {AnnualTable(q) : q \in SeqsUpTo(Stations \X PeakVals, MaxPeaks)}

InitRank ==
    /\ pc = "SelectPeaks"
    /\ failedAt = ""
    /\ files = <<>>
    /\ rawWildcat = None /\ rawTippe = None
    /\ annualCSV \in RankTables
    /\ monthlyCSV = None
    /\ wildcatDF = None /\ tippeDF = None /\ MV = 0
    /\ annualMetrics = ReadMetrics(annualCSV)
    /\ monthlyMetrics = NoFrame
    /\ lastDate = 0 /\ startDate = 0
    /\ monthlyAVGwildcat = None /\ monthlyAVGtippe = None
    /\ peakWildcat = None /\ peakTippe = None
    /\ ppWildcat = None /\ ppTippe = None
    /\ figure = None
    /\ arg = None /\ ret = None /\ clip = None

RankChartRaises ==
    /\ pc = "Chart6"
    /\ ChartRaises

NextRank ==
    \/ SelectPeaks \/ SortPeaks \/ ComputePlottingPositions \/ Chart6
    \/ RankChartRaises

SpecRank == InitRank /\ [][NextRank]_vars

\* the peak flows of a station as they stand in the annual table
InputPeaks(station) ==
    LET rows == SelectSeq(annualCSV.rows, LAMBDA row : row.Station = station)
    IN  [i \in DOMAIN rows |->
            [Date |-> rows[i].Date, val |-> rows[i].stat["Peak Flow"]]]

Occurrences(series, e) == Cardinality({i \in DOMAIN series : series[i] = e})

IsPermutation(a, b) ==
    /\ Len(a) = Len(b)
    /\ \A i \in DOMAIN a : Occurrences(a, a[i]) = Occurrences(b, a[i])

PositionsComputed == pc \in {"Chart6", "done", "failed"}

PeaksSorted == pc \in {"PlottingPositions", "Chart6", "done", "failed"}

PlottingContract(pp, n) ==
    /\ Len(pp) = n
    /\ \A i \in 1..n : pp[i][1] * n = i * pp[i][2]
    /\ \A i \in 1..n : pp[i][2] > 0
    /\ \A i \in 1..(n - 1) : pp[i][1] * pp[i + 1][2] < pp[i + 1][1] * pp[i][2]
    /\ \A i \in 1..n : 0 < pp[i][1] /\ pp[i][1] <= pp[i][2]
    /\ n >= 1 => (pp[1][1] * n = pp[1][2] /\ pp[n][1] = pp[n][2])

\* C1: for each station's series of n peak flows the plotting positions
\* have n entries, entry i (1-indexed) is i/n, they strictly increase with
\* rank, lie in (0, 1], the first is 1/n and the last is exactly 1.
C1_PlottingPositions ==
    PositionsComputed =>
        /\ PlottingContract(ppWildcat, Len(InputPeaks("Wildcat")))
        /\ PlottingContract(ppTippe, Len(InputPeaks("Tippe")))

C1_Witness ==
    /\ pc = "Chart6"
    /\ Len(InputPeaks("Wildcat")) = 3
    /\ ppWildcat = <<<<1, 3>>, <<2, 3>>, <<3, 3>>>>
    /\ Len(ppTippe) = 0

StrictlyDescending(series) ==
    \A i \in 1..(Len(series) - 1) :
        /\ series[i].val # NaN /\ series[i + 1].val # NaN
        /\ series[i + 1].val[1] * series[i].val[2]
             < series[i].val[1] * series[i + 1].val[2]

\* not increasing over the non-missing values, the missing ones last
DescendingMissingLast(series) ==
    \A i \in 1..(Len(series) - 1) :
        \/ series[i + 1].val = NaN
        \/ /\ series[i].val # NaN
           /\ series[i + 1].val[1] * series[i].val[2]
                <= series[i].val[1] * series[i + 1].val[2]

PairedByRank(points, series) ==
    /\ Len(points) = Len(series)
    /\ \A i \in DOMAIN points :
          /\ points[i][1] = <<i, Len(series)>>
          /\ points[i][2] = series[i].val

\* C2 as stated: the sorted values are a permutation of the input of the
\* same length, in strictly descending order (also with equal values),
\* paired position by position with the plotting positions.
C2_StrictlyDescending ==
    PeaksSorted =>
        /\ IsPermutation(peakWildcat, InputPeaks("Wildcat"))
        /\ IsPermutation(peakTippe, InputPeaks("Tippe"))
        /\ StrictlyDescending(peakWildcat)
        /\ StrictlyDescending(peakTippe)

\* C2 amended: the sorted values are a permutation of the input of the same
\* length, in descending order that is not strict (equal values stay next
\* to each other, missing values come last), and the chart pairs position k
\* of the sorted values with plotting position k/n.
C2_DescendingPermutation ==
    /\ PeaksSorted =>
        /\ IsPermutation(peakWildcat, InputPeaks("Wildcat"))
        /\ IsPermutation(peakTippe, InputPeaks("Tippe"))
        /\ DescendingMissingLast(peakWildcat)
        /\ DescendingMissingLast(peakTippe)
    /\ pc = "done" =>
        /\ PairedByRank(figure[1], peakWildcat)
        /\ PairedByRank(figure[2], peakTippe)

C2_Witness ==
    /\ pc = "done"
    /\ Len(InputPeaks("Wildcat")) = 3
    /\ [i \in 1..3 |-> InputPeaks("Wildcat")[i].val]
         = <<Num(75), Num(100), Num(75)>>
    /\ [i \in 1..3 |-> peakWildcat[i].val] = <<Num(100), Num(75), Num(75)>>
    /\ peakWildcat[2].Date = 1 /\ peakWildcat[3].Date = 3
    /\ figure[1][1] = <<<<1, 3>>, Num(100)>>
    /\ figure[1][3] = <<<<3, 3>>, Num(75)>>

(***************************************************************************)
(* Properties of the whole script.                                         *)
(***************************************************************************)
ChartNames ==
    <<"DailyDischarge5Year.png", "AnnualCoeffVar.png", "AnnualTQmean.png",
      "AnnualRBindex.png", "MonthlyMeanFlow.png", "ExceedanceProbability.png">>

ChartNumber(block) ==
    CHOOSE k \in 1..6 : block = <<"Chart1", "Chart2", "Chart3", "Chart4",
                                  "Chart5", "Chart6">>[k]

Written(name) == \E i \in DOMAIN files : files[i] = name

Absent(file, station) ==
    /\ file.ok
    /\ ~\E i \in DOMAIN file.rows : file.rows[i].Station = station

AllMissing(frame, name) ==
    /\ DOMAIN frame.data[name] = 1..12
    /\ \A k \in 1..12 : frame.data[name][k] = NaN

C9_FilesArePrefix ==
    /\ Len(files) <= 6
    /\ \A i \in DOMAIN files : files[i] = ChartNames[i]
    /\ \A i, j \in DOMAIN files : files[i] = files[j] => i = j
    /\ (pc = "failed" /\ failedAt \in Charts)
          => Len(files) = ChartNumber(failedAt) - 1
    /\ pc = "done" => (failedAt = "" /\ files = ChartNames)

C9_Witness ==
    /\ pc = "failed"
    /\ failedAt = "Chart3"
    /\ files = <<"DailyDischarge5Year.png", "AnnualCoeffVar.png">>

\* C10: the two raw reads, the two metrics reads, the two clips and the
\* last-date lookup are complete before the first image is written, so a
\* failure in any of them ends the run without an output file.
C10_InputsBeforeOutput ==
    /\ files # <<>> =>
          /\ rawWildcat.ok /\ rawTippe.ok /\ annualCSV.ok /\ monthlyCSV.ok
          /\ annualMetrics = [columns |-> annualCSV.columns,
                              rows |-> annualCSV.rows]
          /\ monthlyMetrics = [columns |-> monthlyCSV.columns,
                               rows |-> monthlyCSV.rows]
          /\ wildcatDF # <<>>
          /\ \A i \in DOMAIN wildcatDF :
                ClipStart <= wildcatDF[i].Date /\ wildcatDF[i].Date <= ClipEnd
          /\ \A i \in DOMAIN tippeDF :
                ClipStart <= tippeDF[i].Date /\ tippeDF[i].Date <= ClipEnd
          /\ Len(tippeDF) =
               Cardinality({i \in DOMAIN rawTippe.rows :
                              /\ ClipStart <= rawTippe.rows[i].Date
                              /\ rawTippe.rows[i].Date <= ClipEnd})
          /\ lastDate = wildcatDF[Len(wildcatDF)].Date
    /\ (pc = "failed" /\ failedAt \notin Charts) => files = <<>>
    /\ (\/ ~rawWildcat.ok \/ ~rawTippe.ok \/ ~annualCSV.ok \/ ~monthlyCSV.ok
        \/ ~\E i \in DOMAIN rawWildcat.rows :
              /\ ClipStart <= rawWildcat.rows[i].Date
              /\ rawWildcat.rows[i].Date <= ClipEnd)
          => (files = <<>> /\ pc # "done")

C10_Witness ==
    /\ pc = "failed"
    /\ failedAt = "LastFiveYears"
    /\ rawWildcat.ok /\ Len(rawWildcat.rows) = 1
    /\ rawTippe.ok /\ annualCSV.ok /\ monthlyCSV.ok
    /\ wildcatDF = <<>>
    /\ files = <<>>

====
